---- MODULE Spec2Model ----
(***************************************************************************)
(* JWT authentication back end of the repository: the token provider      *)
(* (JwtTokenProvider: generateToken / getEmailFromToken / validateToken,   *)
(* on the jjwt parser), the credential check of /auth/login and            *)
(* /auth/register, the bearer-token filter and the role-guarded demo       *)
(* endpoints of DemoController.                                            *)
(*                                                                         *)
(* Time is in milliseconds, as System.currentTimeMillis() gives it.  A JWT *)
(* carries iat and exp as NumericDate, whole seconds.  A MAC is symbolic:  *)
(* the value computed over (algorithm, key, header, payload) equals only   *)
(* itself.  The signature segment is its base64url text: the MAC bytes and *)
(* the unused low bits of the last character.                              *)
(***************************************************************************)
EXTENDS Integers, Sequences, FiniteSets, TLC

\* ------------------------------------------------------------------- state

VARIABLES
    clock,      \* System.currentTimeMillis()
    ticks,      \* clock steps taken
    jwtSecret,  \* JwtTokenProvider.jwtSecret
    users,      \* the user store: email -> [hash, role]
    issued,     \* the tokens generateToken returned, with the clock readings
    resp,       \* the last answer of /auth/login or /auth/register
    reqs,       \* the requests to the protected routes
    user,         \* AuthProvider: useState<User | null>
    isLoading,    \* AuthProvider: useState(false)
    error,        \* AuthProvider: useState<string | null>
    localStorage, \* window.localStorage: key -> value
    calls,        \* login / register calls awaiting their fetch
    settled,      \* how the last call of login / register ended
    mounted,      \* the mount effect of AuthProvider has run
    location,     \* the path of the router
    screen,       \* the page on display
    answers       \* how the promise of each apiCall ended

\* The state of the browser.
cvars == <<user, isLoading, error, localStorage, calls, settled, mounted,
           location, screen, answers>>

vars == <<clock, ticks, jwtSecret, users, issued, resp, reqs, cvars>>

\* ------------------------------------------------------------------ bounds

\* Clock ticks a behaviour may take.
MaxTicks == 2

\* Tokens the server issues in a behaviour.
MaxIssued == 1

\* The clock advances by half a second or by a whole token lifetime.
HalfSecondMs == 500

\* Bits of the decoded MAC an attacker may flip (bit 1 .. FlipBits).
FlipBits == 1

\* --------------------------------------------------------------- constants

\* private int jwtExpirationMs = 86400000; // 24 hours
jwtExpirationMs == 86400000

\* private String jwtSecret = "your-secret-key-min-256-bits";
jwtSecretValue == "your-secret-key-min-256-bits"

\* NumericDate: iat and exp are seconds ("iat": 1516239022).
MsPerSecond == 1000

\* HS512: a 64-byte MAC is 86 base64url characters, 516 bits, of which the
\* last 4 carry no data.
PadBits == 4

Emails == {"admin@x.com", "a@x.com"}

Passwords == {"secret1", "wrong"}

Roles == {"USER", "ADMIN"}

ReqIds == {"r1", "r2"}

Endpoints == {"/api/user/hello", "/api/admin/hello"}

\* ------------------------------------------------------------- JWT (jjwt)

\* Date -> NumericDate: d.getTime() / 1000 (integer division).
ToNumericDate(ms) == ms \div MsPerSecond

\* NumericDate -> Date: new Date(seconds * 1000).
FromNumericDate(s) == s * MsPerSecond

\* The header jjwt writes for signWith(SignatureAlgorithm.HS512, ...).
JwsHeader(alg) == [alg |-> alg]

\* setSubject / setIssuedAt / setExpiration.
Claims(sub, iatMs, expMs) ==
    [sub |-> sub, iat |-> ToNumericDate(iatMs), exp |-> ToNumericDate(expMs)]

\* HMAC over "header.payload" with the key: a value equal only to the MAC
\* of the same algorithm, key, header and payload, with no bit flipped.
Hmac(alg, key, header, payload) ==
    [alg |-> alg, key |-> key, header |-> header, payload |-> payload,
     flipped |-> {}]

\* base64url text of the signature: the bytes, the unused low bits of the
\* last character (0 as encoded), and characters appended after it.
Base64UrlEncode(bytes) == [bytes |-> bytes, pad |-> 0, extra |-> 0]

\* Decoding drops the unused bits; an appended character lengthens the
\* decoded array.
Base64UrlDecode(seg) == [bytes |-> seg.bytes, extra |-> seg.extra]

\* compact(): header.payload.signature
Compact(header, payload, key) ==
    [nseg |-> 3, header |-> header, payload |-> payload,
     sig |-> Base64UrlEncode(Hmac(header.alg, key, header, payload))]

\* The expiry set to the lifetime alone, the clock not added.
generateToken_NoClock(email, key, t0, t1) ==
    Compact(JwsHeader("HS512"), Claims(email, t0, jwtExpirationMs), key)

\* generateToken(email): new Date() is read at t0, System.currentTimeMillis()
\* at t1 >= t0.
generateToken(email, key, t0, t1) ==
    Compact(JwsHeader("HS512"), Claims(email, t0, t1 + jwtExpirationMs), key)

\* MacValidator.isValid: MessageDigest.isEqual(computed, decoded signature).
SignatureIsValid(token, key) ==
    Base64UrlDecode(token.sig) =
        [bytes |-> Hmac(token.header.alg, key, token.header, token.payload),
         extra |-> 0]

\* Date exp = claims.getExpiration(); if (exp != null) { if (now.after(exp)) ...
IsExpired(claims, now) ==
    /\ "exp" \in DOMAIN claims
    /\ now > FromNumericDate(claims.exp)

\* The exception the parser throws.
Failure(kind) == [kind |-> kind]

\* Jwts.parser().setSigningKey(key).parseClaimsJws(token), with the clock at
\* now: the exception it throws, or the claims.
parseClaimsJws(token, key, now) ==
    IF token.nseg # 3 THEN Failure("Malformed")
    ELSE IF token.header.alg = "none" THEN Failure("Malformed")
    ELSE IF ~SignatureIsValid(token, key) THEN Failure("BadSignature")
    ELSE IF IsExpired(token.payload, now) THEN Failure("Expired")
    ELSE [kind |-> "ok", claims |-> token.payload]

\* A login revokes the tokens the same user was issued before.
validateToken_Revoking(token, key, now) ==
    /\ parseClaimsJws(token, key, now).kind = "ok"
    /\ ~\E i \in issued, j \in issued :
            j.token = token /\ i.email = j.email /\ i.t0 > j.t0

\* The result of the last validation kept in a field of the provider and
\* reused for the next token.
validateToken_Cached(token, key, now) ==
    \/ parseClaimsJws(token, key, now).kind = "ok"
    \/ \E r \in DOMAIN reqs :
           reqs[r].status \in {"Verified", "Authorized", "Forbidden"}

\* validateToken: true unless the parser throws.
validateToken(token, key, now) == parseClaimsJws(token, key, now).kind = "ok"

\* getEmailFromToken: the subject of the parsed claims; the parser's
\* exception is not caught.
getEmailFromToken(token, key, now) ==
    LET parsed == parseClaimsJws(token, key, now)
    IN  IF parsed.kind = "ok" THEN parsed.claims.sub ELSE "exception"

\* ------------------------------------------------------------ what a client
\* ------------------------------------------------------------ can present

\* One bit of the decoded MAC flipped.
FlipSignatureBit(token, i) ==
    [token EXCEPT !.sig.bytes.flipped = {i}]

\* One of the unused low bits of the signature's last character flipped.
FlipPadBit(token, i) ==
    [token EXCEPT !.sig.pad = 2 ^ (i - 1)]

\* "Bearer <token>x": a character appended to the token.
AppendChar(token) == [token EXCEPT !.sig.extra = 1]

\* The header rewritten, the signature kept.
SetAlg(token, alg) == [token EXCEPT !.header = JwsHeader(alg)]

\* The payload rewritten, the signature kept.
SetSubject(token, sub) == [token EXCEPT !.payload.sub = sub]

ExtendExpiry(token) ==
    [token EXCEPT !.payload.exp = @ + ToNumericDate(jwtExpirationMs)]

DropExpiry(token) ==
    [token EXCEPT !.payload = [sub |-> @.sub, iat |-> @.iat]]

\* A segment removed, or one added.
SetSegments(token, n) == [token EXCEPT !.nseg = n]

SignatureTampered(token) ==
    {FlipSignatureBit(token, i) : i \in 1..FlipBits}
        \cup {FlipPadBit(token, i) :
                 i \in 1..(IF FlipBits < PadBits THEN FlipBits ELSE PadBits)}
        \cup {AppendChar(token)}

HeaderTampered(token) == {SetAlg(token, "none"), SetAlg(token, "HS256")}

PayloadTampered(token) ==
    {SetSubject(token, e) : e \in Emails \ {token.payload.sub}}
        \cup {ExtendExpiry(token), DropExpiry(token)}

Resegmented(token) == {SetSegments(token, 2), SetSegments(token, 4)}

Tampered(token) ==
    SignatureTampered(token) \cup HeaderTampered(token)
        \cup PayloadTampered(token) \cup Resegmented(token)

\* ------------------------------------------------------------- user store

\* BCryptPasswordEncoder.encode: never the plaintext.
BCryptHash(password) == <<"bcrypt", password>>

\* BCryptPasswordEncoder.matches
PasswordMatches(password, hash) == hash = BCryptHash(password)

\* The stored record of a user.
UserRecord(password, role) == [hash |-> BCryptHash(password), role |-> role]

\* The store at start-up: one administrator.
InitialUsers == [e \in {"admin@x.com"} |-> UserRecord("secret1", "ADMIN")]

\* authenticateUser(email, password): the lookup and the comparison.
authenticateUser(store, email, password) ==
    /\ email \in DOMAIN store
    /\ PasswordMatches(password, store[email].hash)

\* Error Response (401) of /auth/login.
LoginErrorResponse ==
    [status |-> 401, message |-> "Invalid email or password"]

\* Error Response (400/401) of /auth/register.
RegisterErrorResponse ==
    [status |-> 400, message |-> "Email already exists"]

\* Expected Response (200 OK): token and access_token carry the JWT.
AuthResponse(token) == [status |-> 200, token |-> token]

\* The failure tells an unknown email from a wrong password.
LoginResponse_Enumerating(store, key, email, password, t0, t1) ==
    IF email \notin DOMAIN store
    THEN [status |-> 404, message |-> "User not found"]
    ELSE IF ~PasswordMatches(password, store[email].hash)
    THEN LoginErrorResponse
    ELSE AuthResponse(generateToken(email, key, t0, t1))

\* What POST /auth/login answers, the clock read at t0 and at t1.
LoginResponse(store, key, email, password, t0, t1) ==
    IF authenticateUser(store, email, password)
    THEN AuthResponse(generateToken(email, key, t0, t1))
    ELSE LoginErrorResponse

\* ------------------------------------------------------- protected routes

\* The annotation of sayHelloUser copied to sayHelloAdmin.
RequiredRoles_Copied(endpoint) == {"USER", "ADMIN"}

\* @PreAuthorize on the handlers of DemoController.
RequiredRoles(endpoint) ==
    CASE endpoint = "/api/user/hello" -> {"USER", "ADMIN"}
      [] endpoint = "/api/admin/hello" -> {"ADMIN"}

\* The handlers of DemoController that carry @PreAuthorize.
Annotated(endpoint) == endpoint \in Endpoints

\* hasAnyRole / hasRole against the authorities of the principal; a handler
\* without the annotation asks for no role.
HasRequiredRole(roles, endpoint) ==
    Annotated(endpoint) => roles \cap RequiredRoles(endpoint) # {}

\* The Authorization header of a request.
NoAuthorization == [present |-> FALSE]

Bearer(token) == [present |-> TRUE, token |-> token]

\* A request not yet seen by the filter chain.
NewRequest ==
    [status |-> "NoToken", auth |-> NoAuthorization, endpoint |-> "none",
     at |-> 0, principal |-> "none", reason |-> "none", http |-> 0]

\* ------------------------------------------------------------ the browser

\* Calls of login / register a behaviour has in flight at once.
MaxCalls == 1

\* JavaScript null.
null == [null |-> TRUE]

\* The string "" where a token is expected.
EmptyString == [nseg |-> 0]

\* An error message.
Text(s) == [text |-> s]

\* `Login failed with status ${response.status}`
StatusText(prefix, status) == [text |-> prefix, status |-> status]

\* obj[key] is a truthy string: a token, or a text.
HasToken(obj, key) == key \in DOMAIN obj /\ obj[key] # EmptyString

HasText(obj, key) == key \in DOMAIN obj /\ obj[key] # ""

\* localStorage.setItem / removeItem
setItem(store, key, value) ==
    [k \in DOMAIN store \cup {key} |-> IF k = key THEN value ELSE store[k]]

removeItem(store, key) == [k \in DOMAIN store \ {key} |-> store[k]]

EmptyStorage == [k \in {} |-> EmptyString]

\* Every value counts as a session.
isAuthenticated_Always(usr) == TRUE

\* isAuthenticated: !!user
isAuthenticated(usr) == usr # null

\* The mount effect restores the user from a token alone.
StoredUser_TokenOnly(store) ==
    IF HasToken(store, "authToken")
    THEN [email |-> IF "userEmail" \in DOMAIN store
                    THEN store["userEmail"] ELSE "",
          token |-> store["authToken"]]
    ELSE null

\* The mount effect: storedToken && storedEmail, else the user stays null.
StoredUser(store) ==
    IF HasToken(store, "authToken") /\ HasText(store, "userEmail")
    THEN [email |-> store["userEmail"], token |-> store["authToken"]]
    ELSE null

\* The pages of the router.
Paths == {"/", "/login", "/register", "/dashboard"}

Page(path) ==
    CASE path = "/" -> "Home"
      [] path = "/login" -> "Login"
      [] path = "/register" -> "Register"
      [] path = "/dashboard" -> "Dashboard"

\* <Route path="/dashboard"><ProtectedRoute><Dashboard/></ProtectedRoute>:
\* not authenticated, redirect to /login; authenticated, the page.
Route(path, usr) ==
    IF path = "/dashboard" /\ ~isAuthenticated(usr)
    THEN [location |-> "/login", screen |-> Page("/login")]
    ELSE [location |-> path, screen |-> Page(path)]

\* The tokens a server answer may carry.
ClientTokens == {generateToken(e, jwtSecretValue, 0, 0) : e \in Emails}

\* A JSON body: the fields it has.
Body(fields, value) == [k \in fields |-> value[k]]

\* What fetch settles with: a response (status, JSON body; a body that is
\* not JSON reads as {}), or a rejection (network failure).
OkBodies ==
    {Body({"token", "access_token"}, [token |-> t, access_token |-> a]) :
        t \in {generateToken("admin@x.com", jwtSecretValue, 0, 0),
               EmptyString},
        a \in {generateToken("a@x.com", jwtSecretValue, 0, 0), EmptyString}}
    \cup {Body({"token"}, [token |-> t]) : t \in ClientTokens}
    \cup {Body({"access_token"}, [access_token |-> t]) : t \in ClientTokens}
    \cup {Body({}, [k \in {} |-> ""])}

ErrorBodies ==
    {Body({"message"}, [message |-> m]) :
        m \in {"Invalid email or password", "Email already exists", ""}}
    \cup {Body({}, [k \in {} |-> ""])}

FetchResults ==
    {[kind |-> "response", status |-> 200, body |-> b] : b \in OkBodies}
    \cup {[kind |-> "response", status |-> st, body |-> b] :
             st \in {401, 500}, b \in ErrorBodies}
    \cup {[kind |-> "throw", message |-> "Failed to fetch"]}

\* response.ok
ResponseOk(res) == res.status >= 200 /\ res.status <= 299

FailedPrefix(kind) ==
    IF kind = "login" THEN "Login failed with status"
    ELSE "Registration failed with status"

\* register reads data.token alone.
Outcome_RegisterTokenOnly(kind, res) ==
    IF res.kind = "throw" THEN [ok |-> FALSE, error |-> Text(res.message)]
    ELSE IF ~ResponseOk(res)
    THEN [ok |-> FALSE,
          error |-> IF HasText(res.body, "message")
                    THEN Text(res.body["message"])
                    ELSE StatusText(FailedPrefix(kind), res.status)]
    ELSE IF HasToken(res.body, "token")
    THEN [ok |-> TRUE, token |-> res.body["token"]]
    ELSE IF kind = "login" /\ HasToken(res.body, "access_token")
    THEN [ok |-> TRUE, token |-> res.body["access_token"]]
    ELSE [ok |-> FALSE, error |-> Text("No token received from server")]

\* access_token is preferred to token.
Outcome_AccessTokenFirst(kind, res) ==
    IF res.kind = "throw" THEN [ok |-> FALSE, error |-> Text(res.message)]
    ELSE IF ~ResponseOk(res)
    THEN [ok |-> FALSE,
          error |-> IF HasText(res.body, "message")
                    THEN Text(res.body["message"])
                    ELSE StatusText(FailedPrefix(kind), res.status)]
    ELSE IF HasToken(res.body, "access_token")
    THEN [ok |-> TRUE, token |-> res.body["access_token"]]
    ELSE IF HasToken(res.body, "token")
    THEN [ok |-> TRUE, token |-> res.body["token"]]
    ELSE [ok |-> FALSE, error |-> Text("No token received from server")]

\* The token is not checked before it is stored.
Outcome_Unchecked(kind, res) ==
    IF res.kind = "throw" THEN [ok |-> FALSE, error |-> Text(res.message)]
    ELSE IF ~ResponseOk(res)
    THEN [ok |-> FALSE,
          error |-> IF HasText(res.body, "message")
                    THEN Text(res.body["message"])
                    ELSE StatusText(FailedPrefix(kind), res.status)]
    ELSE IF HasToken(res.body, "token")
    THEN [ok |-> TRUE, token |-> res.body["token"]]
    ELSE IF "access_token" \in DOMAIN res.body
    THEN [ok |-> TRUE, token |-> res.body["access_token"]]
    ELSE [ok |-> TRUE, token |-> EmptyString]

\* The body of login / register after the fetch settled: the token to
\* store, or the error thrown.
Outcome(kind, res) ==
    IF res.kind = "throw" THEN [ok |-> FALSE, error |-> Text(res.message)]
    ELSE IF ~ResponseOk(res)
    THEN [ok |-> FALSE,
          error |-> IF HasText(res.body, "message")
                    THEN Text(res.body["message"])
                    ELSE StatusText(FailedPrefix(kind), res.status)]
    ELSE IF HasToken(res.body, "token")
    THEN [ok |-> TRUE, token |-> res.body["token"]]
    ELSE IF HasToken(res.body, "access_token")
    THEN [ok |-> TRUE, token |-> res.body["access_token"]]
    ELSE [ok |-> FALSE, error |-> Text("No token received from server")]

\* The caller's header is kept even when a token is stored.
ApiAuthorization_CallerFirst(store, own) ==
    IF own.present THEN own
    ELSE IF HasToken(store, "authToken") THEN Bearer(store["authToken"])
    ELSE own

\* apiCall: the Authorization header sent, `own` being the one in
\* options.headers.
ApiAuthorization(store, own) ==
    IF HasToken(store, "authToken") THEN Bearer(store["authToken"]) ELSE own

\* No apiCall has settled.
NoAnswers == [r \in ReqIds |-> null]

\* A browser that has not opened the application.
BrowserClosed ==
    /\ user = null
    /\ isLoading = FALSE
    /\ error = null
    /\ localStorage = EmptyStorage
    /\ calls = {}
    /\ settled = null
    /\ mounted = FALSE
    /\ location = "/"
    /\ screen = Page("/")
    /\ answers = NoAnswers

\* ------------------------------------------------------------ the server

Init ==
    /\ clock = 0
    /\ ticks = 0
    /\ jwtSecret = jwtSecretValue
    /\ users = InitialUsers
    /\ issued = {}
    /\ resp = [status |-> 0]
    /\ reqs = [r \in ReqIds |-> NewRequest]
    /\ BrowserClosed

\* The tokens a client holds or can derive from the ones it holds.
Presentable ==
    UNION {{i.token} \cup Tampered(i.token) : i \in issued}

\* Time passes.
Tick(d) ==
    /\ ticks < MaxTicks
    /\ clock' = clock + d
    /\ ticks' = ticks + 1
    /\ UNCHANGED <<jwtSecret, users, issued, resp, reqs, cvars>>

\* The record of an issuance.
Issuance(email, t0, t1, token) ==
    [email |-> email, t0 |-> t0, t1 |-> t1, token |-> token]

\* A failed login of a known email locks the account.
Login_Lockout(email, password, d) ==
    LET answer == LoginResponse(users, jwtSecret, email, password,
                                clock, clock + d)
    IN  /\ resp' = answer
        /\ IF answer.status = 200
           THEN /\ Cardinality(issued) < MaxIssued
                /\ d > 0 => ticks < MaxTicks
                /\ issued' = issued \cup
                       {Issuance(email, clock, clock + d, answer.token)}
                /\ clock' = clock + d
                /\ ticks' = IF d > 0 THEN ticks + 1 ELSE ticks
                /\ users' = users
           ELSE /\ d = 0
                /\ users' = [e \in DOMAIN users |->
                               IF e = email
                               THEN [users[e] EXCEPT !.hash = <<"locked">>]
                               ELSE users[e]]
                /\ UNCHANGED <<issued, clock, ticks>>
        /\ UNCHANGED <<jwtSecret, reqs, cvars>>

\* POST /auth/login {email, password}.  generateToken reads the clock twice;
\* the second reading is d later.
Login(email, password, d) ==
    LET t0 == clock
        t1 == clock + d
        answer == LoginResponse(users, jwtSecret, email, password, t0, t1)
    IN  /\ resp' = answer
        /\ IF answer.status = 200
           THEN /\ Cardinality(issued) < MaxIssued
                /\ d > 0 => ticks < MaxTicks
                /\ issued' = issued \cup {Issuance(email, t0, t1, answer.token)}
                /\ clock' = t1
                /\ ticks' = IF d > 0 THEN ticks + 1 ELSE ticks
           ELSE /\ d = 0
                /\ UNCHANGED <<issued, clock, ticks>>
        /\ UNCHANGED <<jwtSecret, users, reqs, cvars>>

\* POST /auth/register {email, password}.
Register(email, password, d) ==
    LET t0 == clock
        t1 == clock + d
    IN  IF email \in DOMAIN users
        THEN /\ d = 0
             /\ resp' = RegisterErrorResponse
             /\ UNCHANGED <<clock, ticks, jwtSecret, users, issued, reqs,
                            cvars>>
        ELSE /\ Cardinality(issued) < MaxIssued
             /\ d > 0 => ticks < MaxTicks
             /\ users' = [e \in DOMAIN users \cup {email} |->
                            IF e = email THEN UserRecord(password, "USER")
                            ELSE users[e]]
             /\ resp' = AuthResponse(generateToken(email, jwtSecret, t0, t1))
             /\ issued' = issued \cup
                    {Issuance(email, t0, t1,
                              generateToken(email, jwtSecret, t0, t1))}
             /\ clock' = t1
             /\ ticks' = IF d > 0 THEN ticks + 1 ELSE ticks
             /\ UNCHANGED <<jwtSecret, reqs, cvars>>

\* A request to a protected route enters the filter chain.
Present(r, auth, endpoint) ==
    /\ reqs[r].status = "NoToken"
    /\ reqs' = [reqs EXCEPT ![r] =
                  [@ EXCEPT !.status = "Verifying", !.auth = auth,
                            !.endpoint = endpoint]]
    /\ UNCHANGED <<clock, ticks, jwtSecret, users, issued, resp, cvars>>

\* JwtAuthenticationFilter: the bearer token is validated and the user of
\* its subject becomes the principal; 401 otherwise.
Authenticate(auth, key, store, now) ==
    IF ~auth.present THEN [ok |-> FALSE, reason |-> "Unauthenticated"]
    ELSE IF ~validateToken(auth.token, key, now)
    THEN [ok |-> FALSE, reason |-> parseClaimsJws(auth.token, key, now).kind]
    ELSE IF getEmailFromToken(auth.token, key, now) \notin DOMAIN store
    THEN [ok |-> FALSE, reason |-> "Unauthenticated"]
    ELSE [ok |-> TRUE, principal |-> getEmailFromToken(auth.token, key, now)]

Verify(r) ==
    LET found == Authenticate(reqs[r].auth, jwtSecret, users, clock)
    IN  /\ reqs[r].status = "Verifying"
        /\ reqs' = [reqs EXCEPT ![r] =
                      IF found.ok
                      THEN [@ EXCEPT !.status = "Verified", !.at = clock,
                                     !.principal = found.principal]
                      ELSE [@ EXCEPT !.status = "Rejected", !.at = clock,
                                     !.reason = found.reason, !.http = 401]]
        /\ UNCHANGED <<clock, ticks, jwtSecret, users, issued, resp, cvars>>

\* A refusal by role answered as a failed authentication.
Authorize_AsRejected(r) ==
    /\ reqs[r].status = "Verified"
    /\ reqs' = [reqs EXCEPT ![r] =
                  IF HasRequiredRole({users[@.principal].role}, @.endpoint)
                  THEN [@ EXCEPT !.status = "Authorized", !.http = 200]
                  ELSE [@ EXCEPT !.status = "Rejected", !.http = 401,
                                 !.reason = "Unauthenticated"]]
    /\ UNCHANGED <<clock, ticks, jwtSecret, users, issued, resp, cvars>>

\* The role check of the endpoint: 200 or 403.
Authorize(r) ==
    /\ reqs[r].status = "Verified"
    /\ reqs' = [reqs EXCEPT ![r] =
                  IF HasRequiredRole({users[@.principal].role}, @.endpoint)
                  THEN [@ EXCEPT !.status = "Authorized", !.http = 200]
                  ELSE [@ EXCEPT !.status = "Forbidden", !.http = 403,
                                 !.reason = "Forbidden"]]
    /\ UNCHANGED <<clock, ticks, jwtSecret, users, issued, resp, cvars>>

\* The steps of the server.
ServerStep ==
    \/ \E d \in {HalfSecondMs, jwtExpirationMs} : Tick(d)
    \/ \E e \in Emails, p \in Passwords, d \in {0, HalfSecondMs} : Login(e, p, d)
    \/ \E e \in Emails, p \in Passwords, d \in {0, HalfSecondMs} :
            Register(e, p, d)
    \/ \E r \in ReqIds : Verify(r)
    \/ \E r \in ReqIds : Authorize(r)

\* One client, one request: any token it holds or can derive.
Next ==
    \/ ServerStep
    \/ \E e \in Endpoints :
            \E a \in {NoAuthorization} \cup {Bearer(t) : t \in Presentable} :
                Present("r1", a, e)

Spec == Init /\ [][Next]_vars

\* ------------------------------------------------ two requests in flight

\* After a@x.com registered and the administrator logged in, both at the
\* start of the clock.
ConcInit ==
    /\ clock = 0
    /\ ticks = 0
    /\ jwtSecret = jwtSecretValue
    /\ users = [e \in Emails |->
                  IF e = "admin@x.com" THEN UserRecord("secret1", "ADMIN")
                  ELSE UserRecord("secret1", "USER")]
    /\ issued = {Issuance(e, 0, 0, generateToken(e, jwtSecretValue, 0, 0)) :
                    e \in Emails}
    /\ resp = AuthResponse(generateToken("admin@x.com", jwtSecretValue, 0, 0))
    /\ reqs = [r \in ReqIds |-> NewRequest]
    /\ BrowserClosed

\* What the two clients present: a token as issued, or with a bit of its
\* MAC flipped.
ConcPresentable ==
    UNION {{i.token, FlipSignatureBit(i.token, 1)} : i \in issued}

ConcNext ==
    \/ ServerStep
    \/ \E r \in ReqIds, e \in Endpoints :
            \E a \in {NoAuthorization} \cup {Bearer(t) : t \in ConcPresentable} :
                Present(r, a, e)

ConcSpec == ConcInit /\ [][ConcNext]_vars

\* A request in the filter chain is served by its own thread.
FairSpec ==
    ConcSpec /\ \A r \in ReqIds : WF_vars(Verify(r)) /\ WF_vars(Authorize(r))

\* ------------------------------------------------------ the public route

\* DemoController.sayHelloPublic
PublicEndpoint == "/api/public/hello"

\* SecurityConfig.filterChain: antMatchers("/auth/**").permitAll()
PermitAll(endpoint) == endpoint \in {"/auth/login", "/auth/register"}

\* SecurityConfig.filterChain: a request to a path open to everyone goes
\* to its handler as it is; anyRequest().authenticated() for the others.
Admit(r) ==
    IF PermitAll(reqs[r].endpoint)
    THEN /\ reqs[r].status = "Verifying"
         /\ reqs' = [reqs EXCEPT ![r] =
                       [@ EXCEPT !.status = "Authorized", !.at = clock,
                                 !.http = 200]]
         /\ UNCHANGED <<clock, ticks, jwtSecret, users, issued, resp, cvars>>
    ELSE Verify(r)

\* Requests to the three routes of DemoController, with no token, with a
\* token as issued (valid, then expired) or with a bit of its MAC flipped.
PublicNext ==
    \/ \E d \in {HalfSecondMs, jwtExpirationMs} : Tick(d)
    \/ \E r \in ReqIds, e \in Endpoints \cup {PublicEndpoint} :
            \E a \in {NoAuthorization} \cup {Bearer(t) : t \in ConcPresentable} :
                Present(r, a, e)
    \/ \E r \in ReqIds : Admit(r)
    \/ \E r \in ReqIds : Authorize(r)

PublicSpec == ConcInit /\ [][PublicNext]_vars

\* ------------------------------------------------- the browser's steps

\* The state of the server but for the requests.
svars == <<clock, ticks, jwtSecret, users, issued, resp>>

\* A call of login / register in flight.
Call(kind, email, password) ==
    [kind |-> kind, email |-> email, password |-> password]

\* login / register up to the fetch: setIsLoading(true), setError(null).
StartCall(kind, email, password) ==
    /\ mounted
    /\ Cardinality(calls) < MaxCalls
    /\ isLoading' = TRUE
    /\ error' = null
    /\ calls' = calls \cup {Call(kind, email, password)}
    /\ UNCHANGED <<user, localStorage, settled, mounted, location, screen>>
    /\ UNCHANGED <<svars, reqs, answers>>

\* The finally block left out: a failed call stays loading.
SettleCall_WithoutFinally(c, res) ==
    LET out == Outcome(c.kind, res)
    IN  /\ c \in calls
        /\ calls' = calls \ {c}
        /\ IF out.ok
           THEN /\ user' = [email |-> c.email, token |-> out.token]
                /\ localStorage' =
                       setItem(setItem(localStorage, "authToken", out.token),
                               "userEmail", c.email)
                /\ error' = error
                /\ isLoading' = FALSE
                /\ settled' = [call |-> c, rejected |-> FALSE]
           ELSE /\ error' = out.error
                /\ isLoading' = isLoading
                /\ settled' = [call |-> c, rejected |-> TRUE,
                               reason |-> out.error]
                /\ UNCHANGED <<user, localStorage>>
        /\ location' = Route(location, user').location
        /\ screen' = Route(location, user').screen
        /\ mounted' = mounted
        /\ UNCHANGED <<svars, reqs, answers>>

\* A failed call signs the user out.
SettleCall_ClearingOnFailure(c, res) ==
    LET out == Outcome(c.kind, res)
    IN  /\ c \in calls
        /\ calls' = calls \ {c}
        /\ isLoading' = FALSE
        /\ IF out.ok
           THEN /\ user' = [email |-> c.email, token |-> out.token]
                /\ localStorage' =
                       setItem(setItem(localStorage, "authToken", out.token),
                               "userEmail", c.email)
                /\ error' = error
                /\ settled' = [call |-> c, rejected |-> FALSE]
           ELSE /\ error' = out.error
                /\ settled' = [call |-> c, rejected |-> TRUE,
                               reason |-> out.error]
                /\ user' = null
                /\ localStorage' =
                       removeItem(removeItem(localStorage, "authToken"),
                                  "userEmail")
        /\ location' = Route(location, user').location
        /\ screen' = Route(location, user').screen
        /\ mounted' = mounted
        /\ UNCHANGED <<svars, reqs, answers>>

\* login / register from the settling of the fetch on: the user and the
\* two keys are written, or the error is set and thrown; finally
\* setIsLoading(false).
SettleCall(c, res) ==
    LET out == Outcome(c.kind, res)
    IN  /\ c \in calls
        /\ calls' = calls \ {c}
        /\ isLoading' = FALSE
        /\ IF out.ok
           THEN /\ user' = [email |-> c.email, token |-> out.token]
                /\ localStorage' =
                       setItem(setItem(localStorage, "authToken", out.token),
                               "userEmail", c.email)
                /\ error' = error
                /\ settled' = [call |-> c, rejected |-> FALSE]
           ELSE /\ error' = out.error
                /\ settled' = [call |-> c, rejected |-> TRUE,
                               reason |-> out.error]
                /\ UNCHANGED <<user, localStorage>>
        /\ location' = Route(location, user').location
        /\ screen' = Route(location, user').screen
        /\ mounted' = mounted
        /\ UNCHANGED <<svars, reqs, answers>>

\* logout forgets the user and leaves localStorage as it is.
logout_KeepingStorage ==
    /\ user' = null
    /\ localStorage' = localStorage
    /\ error' = null
    /\ UNCHANGED <<isLoading, calls, settled, mounted>>
    /\ UNCHANGED <<svars, reqs, answers>>

\* logout forgets the user and keeps the stored token.
logout_KeepingToken ==
    /\ user' = null
    /\ localStorage' = removeItem(localStorage, "userEmail")
    /\ error' = null
    /\ UNCHANGED <<isLoading, calls, settled, mounted>>
    /\ UNCHANGED <<svars, reqs, answers>>

\* AuthProvider.logout: no request is made.
logout ==
    /\ user' = null
    /\ localStorage' =
           removeItem(removeItem(localStorage, "authToken"), "userEmail")
    /\ error' = null
    /\ UNCHANGED <<isLoading, calls, settled, mounted>>
    /\ UNCHANGED <<svars, reqs, answers>>

\* logout() called by a component other than the Dashboard's button.
Logout ==
    /\ mounted
    /\ logout
    /\ location' = Route(location, user').location
    /\ screen' = Route(location, user').screen

\* Dashboard.handleLogout: logout(); setLocation("/login").
HandleLogout ==
    /\ mounted
    /\ screen = "Dashboard"
    /\ logout
    /\ location' = Route("/login", user').location
    /\ screen' = Route("/login", user').screen

\* The page is loaded at `path`: fresh state, first render.
Reload(path) ==
    /\ user' = null
    /\ isLoading' = FALSE
    /\ error' = null
    /\ calls' = {}
    /\ settled' = null
    /\ mounted' = FALSE
    /\ location' = Route(path, null).location
    /\ screen' = Route(path, null).screen
    /\ UNCHANGED localStorage
    /\ UNCHANGED <<svars, reqs, answers>>

\* The mount effect of AuthProvider, and the render it causes.
Mount ==
    /\ ~mounted
    /\ mounted' = TRUE
    /\ user' = StoredUser(localStorage)
    /\ location' = Route(location, user').location
    /\ screen' = Route(location, user').screen
    /\ UNCHANGED <<isLoading, error, localStorage, calls, settled>>
    /\ UNCHANGED <<svars, reqs, answers>>

\* setLocation(path)
Navigate(path) ==
    /\ mounted
    /\ location' = Route(path, user).location
    /\ screen' = Route(path, user).screen
    /\ UNCHANGED <<user, isLoading, error, localStorage, calls, settled,
                   mounted>>
    /\ UNCHANGED <<svars, reqs, answers>>

\* apiCall(endpoint, options)
ApiCall(r, endpoint, own) ==
    /\ mounted
    /\ Present(r, ApiAuthorization(localStorage, own), endpoint)

\* What localStorage may hold when the page is opened.
StoredStates ==
    {EmptyStorage}
    \cup {setItem(EmptyStorage, "authToken", t) : t \in ClientTokens}
    \cup {setItem(EmptyStorage, "userEmail", e) : e \in Emails}
    \cup {setItem(setItem(EmptyStorage, "authToken", t), "userEmail", e) :
             t \in ClientTokens \cup {EmptyString}, e \in Emails}

\* The users of the application, registered.
RegisteredUsers ==
    [e \in Emails |->
        IF e = "admin@x.com" THEN UserRecord("secret1", "ADMIN")
        ELSE UserRecord("secret1", "USER")]

\* The page is opened at some path over some stored state.
ClientInit ==
    /\ clock = 0
    /\ ticks = 0
    /\ jwtSecret = jwtSecretValue
    /\ users = RegisteredUsers
    /\ issued = {Issuance(e, 0, 0, generateToken(e, jwtSecretValue, 0, 0)) :
                    e \in Emails}
    /\ resp = [status |-> 0]
    /\ reqs = [r \in ReqIds |-> NewRequest]
    /\ user = null
    /\ isLoading = FALSE
    /\ error = null
    /\ localStorage \in StoredStates
    /\ calls = {}
    /\ settled = null
    /\ mounted = FALSE
    /\ answers = NoAnswers
    /\ \E path \in Paths :
            /\ location = Route(path, null).location
            /\ screen = Route(path, null).screen

\* The header a caller of apiCall passes in options.headers.
OwnHeaders ==
    {NoAuthorization,
     Bearer(generateToken("a@x.com", jwtSecretValue, 0, 0))}

ClientNext ==
    \/ \E e \in Emails : StartCall("login", e, "secret1")
    \/ \E e \in Emails : StartCall("register", e, "secret1")
    \/ \E c \in calls, res \in FetchResults : SettleCall(c, res)
    \/ Logout
    \/ HandleLogout
    \/ \E path \in Paths : Reload(path)
    \/ Mount
    \/ \E path \in Paths : Navigate(path)
    \/ \E e \in Endpoints, own \in OwnHeaders : ApiCall("r1", e, own)

ClientSpec == ClientInit /\ [][ClientNext]_vars

\* The effect runs once the page has rendered.
ClientFairSpec == ClientSpec /\ WF_vars(Mount)

\* ------------------------------------------------------------ the forms

\* A form whose submit button is disabled while isLoading.
Submit(kind, email, password) ==
    /\ ~isLoading
    /\ StartCall(kind, email, password)

\* The fetch of a call in flight completes.
Settle == \E c \in calls, res \in FetchResults : SettleCall(c, res)

SubmitNext ==
    \/ \E e \in Emails : Submit("login", e, "secret1")
    \/ \E e \in Emails : Submit("register", e, "secret1")
    \/ Settle
    \/ Logout
    \/ HandleLogout
    \/ \E path \in Paths : Reload(path)
    \/ Mount
    \/ \E path \in Paths : Navigate(path)

SubmitSpec == ClientInit /\ [][SubmitNext]_vars

\* Every request completes: with a response, or with a network failure.
SubmitFairSpec == SubmitSpec /\ WF_vars(Settle)

\* ------------------------------------------- a call in flight at logout

\* The administrator is signed in and a login or register call, started
\* from that session, awaits its response.
StaleInit ==
    /\ clock = 0
    /\ ticks = 0
    /\ jwtSecret = jwtSecretValue
    /\ users = RegisteredUsers
    /\ issued = {Issuance(e, 0, 0, generateToken(e, jwtSecretValue, 0, 0)) :
                    e \in Emails}
    /\ resp = [status |-> 0]
    /\ reqs = [r \in ReqIds |-> NewRequest]
    /\ user = [email |-> "admin@x.com",
               token |-> generateToken("admin@x.com", jwtSecretValue, 0, 0)]
    /\ isLoading = TRUE
    /\ error = null
    /\ localStorage =
           setItem(setItem(EmptyStorage, "authToken", user.token),
                   "userEmail", user.email)
    /\ \E kind \in {"login", "register"}, e \in Emails :
            calls = {Call(kind, e, "secret1")}
    /\ settled = null
    /\ mounted = TRUE
    /\ answers = NoAnswers
    /\ \E path \in Paths :
            /\ location = Route(path, user).location
            /\ screen = Route(path, user).screen

\* No further call is started: the one in flight settles, before or after
\* a logout.
StaleNext ==
    \/ Settle
    \/ Logout
    \/ HandleLogout
    \/ \E path \in Paths : Navigate(path)

StaleSpec == StaleInit /\ [][StaleNext]_vars

\* ------------------------------------------------- two calls in flight

\* A call was started for a@x.com and then, before it settled, one for
\* admin@x.com.
EarlierEmail == "a@x.com"

LaterEmail == "admin@x.com"

\* Nobody is signed in; both calls await their responses.
OverlapInit ==
    /\ clock = 0
    /\ ticks = 0
    /\ jwtSecret = jwtSecretValue
    /\ users = RegisteredUsers
    /\ issued = {Issuance(e, 0, 0, generateToken(e, jwtSecretValue, 0, 0)) :
                    e \in Emails}
    /\ resp = [status |-> 0]
    /\ reqs = [r \in ReqIds |-> NewRequest]
    /\ user = null
    /\ isLoading = TRUE
    /\ error = null
    /\ localStorage = EmptyStorage
    /\ \E first \in {"login", "register"}, last \in {"login", "register"} :
            calls = {Call(first, EarlierEmail, "secret1"),
                     Call(last, LaterEmail, "secret1")}
    /\ settled = null
    /\ mounted = TRUE
    /\ answers = NoAnswers
    /\ \E path \in Paths :
            /\ location = Route(path, null).location
            /\ screen = Route(path, null).screen

\* The two responses arrive, in either order.
OverlapNext ==
    \/ Settle
    \/ \E path \in Paths : Navigate(path)

OverlapSpec == OverlapInit /\ [][OverlapNext]_vars

\* ------------------------------------------------- a session, signed out

\* The step of the clock that ends just short of a token lifetime after
\* the first login.
AlmostExpirationMs == jwtExpirationMs - HalfSecondMs - 1

\* The administrator's two logins, one second tick apart.
FirstLogin ==
    Issuance("admin@x.com", HalfSecondMs, HalfSecondMs,
             generateToken("admin@x.com", jwtSecretValue,
                           HalfSecondMs, HalfSecondMs))

SecondLogin ==
    Issuance("admin@x.com", 2 * HalfSecondMs, 2 * HalfSecondMs,
             generateToken("admin@x.com", jwtSecretValue,
                           2 * HalfSecondMs, 2 * HalfSecondMs))

\* The administrator logged in, and a second later logged in again: the
\* browser holds the newer token and shows the dashboard.
SessionInit ==
    /\ clock = 2 * HalfSecondMs
    /\ ticks = 0
    /\ jwtSecret = jwtSecretValue
    /\ users = RegisteredUsers
    /\ issued = {FirstLogin, SecondLogin}
    /\ resp = AuthResponse(SecondLogin.token)
    /\ reqs = [r \in ReqIds |-> NewRequest]
    /\ user = [email |-> "admin@x.com", token |-> SecondLogin.token]
    /\ isLoading = FALSE
    /\ error = null
    /\ localStorage =
           setItem(setItem(EmptyStorage, "authToken", SecondLogin.token),
                   "userEmail", "admin@x.com")
    /\ calls = {}
    /\ settled = [call |-> Call("login", "admin@x.com", "secret1"),
                  rejected |-> FALSE]
    /\ mounted = TRUE
    /\ location = "/dashboard"
    /\ screen = Page("/dashboard")
    /\ answers = NoAnswers

\* The browser signs out and calls the API; whoever kept a copy of an
\* issued token presents it; the server verifies; time passes.
SessionNext ==
    \/ \E d \in {HalfSecondMs, AlmostExpirationMs} : Tick(d)
    \/ Logout
    \/ HandleLogout
    \/ \E r \in ReqIds, e \in Endpoints : ApiCall(r, e, NoAuthorization)
    \/ \E r \in ReqIds, e \in Endpoints, i \in issued :
            Present(r, Bearer(i.token), e)
    \/ \E r \in ReqIds : Verify(r)
    \/ \E r \in ReqIds : Authorize(r)

SessionSpec == SessionInit /\ [][SessionNext]_vars

\* ------------------------------------------------- the answers of apiCall

\* The body DemoController writes: a plain string, not JSON.
HelloText(endpoint) ==
    CASE endpoint = "/api/user/hello" -> Text("Hello User!")
      [] endpoint = "/api/admin/hello" -> Text("Hello Admin!")
      [] endpoint = "/api/public/hello" -> Text("Hello Public!")

\* The JSON bodies of an error answer: with a message, with an empty one,
\* with none.
ApiErrorBodies ==
    {Body({"message"}, [message |-> m]) : m \in {"Access Denied", ""}}
    \cup {Body({}, [k \in {} |-> ""])}

\* The responses the server may write to an answered request: its status
\* and its body, JSON or not.
ApiResponses(req) ==
    IF req.http = 200
    THEN {[status |-> 200, json |-> FALSE, body |-> HelloText(req.endpoint)]}
    ELSE {[status |-> req.http, json |-> TRUE, body |-> b] :
             b \in ApiErrorBodies}
         \cup {[status |-> req.http, json |-> FALSE, body |-> Text("")]}

\* The message of the body is not read.
ApiOutcome_StatusTextOnly(res) ==
    IF ~ResponseOk(res)
    THEN [rejected |-> TRUE,
          message |-> StatusText("HTTP", res.status),
          status |-> res.status]
    ELSE IF res.json THEN [rejected |-> FALSE, data |-> res.body]
    ELSE [rejected |-> TRUE, name |-> "SyntaxError"]

\* apiCall from the response on: the ApiError thrown for a response that
\* is not OK, else what response.json() gives.
ApiOutcome(res) ==
    IF ~ResponseOk(res)
    THEN LET errorData == IF res.json THEN res.body
                          ELSE Body({}, [k \in {} |-> ""])
         IN  [rejected |-> TRUE,
              message |-> IF HasText(errorData, "message")
                          THEN Text(errorData["message"])
                          ELSE StatusText("HTTP", res.status),
              status |-> res.status]
    ELSE IF res.json THEN [rejected |-> FALSE, data |-> res.body]
    ELSE [rejected |-> TRUE, name |-> "SyntaxError"]

\* A 401 signs the user out.
ApiSettle_SigningOut(r, res) ==
    /\ mounted
    /\ reqs[r].http # 0
    /\ answers[r] = null
    /\ res \in ApiResponses(reqs[r])
    /\ answers' = [answers EXCEPT ![r] = ApiOutcome(res)]
    /\ IF res.status = 401
       THEN /\ user' = null
            /\ localStorage' =
                   removeItem(removeItem(localStorage, "authToken"),
                              "userEmail")
       ELSE UNCHANGED <<user, localStorage>>
    /\ UNCHANGED <<isLoading, error, calls, settled, mounted, location,
                   screen>>
    /\ UNCHANGED <<svars, reqs>>

\* The promise of apiCall settles on the response to its request.
ApiSettle(r, res) ==
    /\ mounted
    /\ reqs[r].http # 0
    /\ answers[r] = null
    /\ res \in ApiResponses(reqs[r])
    /\ answers' = [answers EXCEPT ![r] = ApiOutcome(res)]
    /\ UNCHANGED <<user, isLoading, error, localStorage, calls, settled,
                   mounted, location, screen>>
    /\ UNCHANGED <<svars, reqs>>

\* Every response a request may get.
AllApiResponses ==
    UNION {ApiResponses([http |-> st, endpoint |-> e]) :
              st \in {200, 401, 403}, e \in Endpoints}

\* A user or the administrator has logged in and the dashboard is on
\* display.
ApiInit ==
    /\ clock = 0
    /\ ticks = 0
    /\ jwtSecret = jwtSecretValue
    /\ users = RegisteredUsers
    /\ issued = {Issuance(e, 0, 0, generateToken(e, jwtSecretValue, 0, 0)) :
                    e \in Emails}
    /\ resp = [status |-> 0]
    /\ reqs = [r \in ReqIds |-> NewRequest]
    /\ \E e \in Emails :
            user = [email |-> e,
                    token |-> generateToken(e, jwtSecretValue, 0, 0)]
    /\ isLoading = FALSE
    /\ error = null
    /\ localStorage =
           setItem(setItem(EmptyStorage, "authToken", user.token),
                   "userEmail", user.email)
    /\ calls = {}
    /\ settled = [call |-> Call("login", user.email, "secret1"),
                  rejected |-> FALSE]
    /\ mounted = TRUE
    /\ location = "/dashboard"
    /\ screen = Page("/dashboard")
    /\ answers = NoAnswers

\* The signed-in browser calls the API while time passes, and signs out.
ApiNext ==
    \/ Tick(AlmostExpirationMs)
    \/ Logout
    \/ \E r \in ReqIds, e \in Endpoints : ApiCall(r, e, NoAuthorization)
    \/ \E r \in ReqIds : Verify(r)
    \/ \E r \in ReqIds : Authorize(r)
    \/ \E r \in ReqIds, res \in AllApiResponses : ApiSettle(r, res)

ApiSpec == ApiInit /\ [][ApiNext]_vars

\* ------------------------------------------------------------- properties

\* A time rounded down to a whole second.
WholeSecond(ms) == ms - (ms % 1000)

\* The single-bit changes of a token's signature segment.
SignatureBitFlips(token) ==
    {FlipSignatureBit(token, i) : i \in 1..FlipBits}
        \cup {FlipPadBit(token, i) :
                 i \in 1..(IF FlipBits < PadBits THEN FlipBits ELSE PadBits)}

\* C1, as stated: verifying a token at the time t it was issued returns
\* the principal with subject, issued-at t and expiry t + TTL, not a failure.
C1_RoundTripExact ==
    \A i \in issued :
        LET parsed == parseClaimsJws(i.token, jwtSecret, i.t0)
        IN  /\ parsed.kind = "ok"
            /\ parsed.claims.sub = i.email
            /\ FromNumericDate(parsed.claims.iat) = i.t0
            /\ FromNumericDate(parsed.claims.exp) = i.t0 + jwtExpirationMs

\* C1, amended: verifying a token at the time it was issued (at either of
\* the two clock readings t0 <= t1 that generateToken takes) never fails and
\* returns the same subject, issued-at = t0 rounded down to a whole second
\* and expiry = t1 + TTL rounded down to a whole second.
C1_RoundTripSeconds ==
    \A i \in issued :
        \A t \in {i.t0, i.t1} :
            LET parsed == parseClaimsJws(i.token, jwtSecret, t)
            IN  /\ parsed.kind = "ok"
                /\ parsed.claims.sub = i.email
                /\ FromNumericDate(parsed.claims.iat) = WholeSecond(i.t0)
                /\ FromNumericDate(parsed.claims.exp) =
                       WholeSecond(i.t1 + jwtExpirationMs)

\* A token was issued off the whole second, the clock moving between the
\* two readings.
C1_Witness ==
    \E i \in issued : i.t0 % 1000 # 0 /\ i.t1 > i.t0

\* C2, as stated: a token issued at t0 fails with Expired at every time
\* t >= t0 + TTL, the boundary included.
C2_ExpiredFromExpiry ==
    \A i \in issued :
        clock >= i.t0 + jwtExpirationMs =>
            parseClaimsJws(i.token, jwtSecret, clock).kind = "Expired"

\* C3, as stated: an issued token with one bit of its signature segment
\* changed, or with its header or payload changed and the signature kept,
\* fails with BadSignature at every time.
C3_TamperRejected ==
    \A i \in issued :
        \A t \in SignatureBitFlips(i.token) \cup HeaderTampered(i.token)
                    \cup PayloadTampered(i.token) :
            parseClaimsJws(t, jwtSecret, clock).kind = "BadSignature"

\* C3, the part that matters: a token changed in one of these ways never
\* verifies.
C3_TamperedNeverVerifies ==
    \A i \in issued :
        \A t \in SignatureBitFlips(i.token) \cup HeaderTampered(i.token)
                    \cup PayloadTampered(i.token) :
            ~validateToken(t, jwtSecret, clock)

\* The states a request ends in.
Terminal(r) == reqs[r].status \in {"Rejected", "Forbidden", "Authorized"}

\* The request carries a token exactly as the server issued it.
CarriesIssued(q, i) == q.auth.present /\ q.auth.token = i.token

\* The request carries a well-formed, correctly signed token that had not
\* reached its exp when the request was verified.
CarriesValid(q) ==
    /\ q.auth.present
    /\ \E i \in issued : CarriesIssued(q, i)
    /\ q.at < FromNumericDate(q.auth.token.payload.exp)

\* C4, as stated: 200 only with a token that verifies and a sufficient
\* role; 401 exactly when no valid principal was established (token absent,
\* corrupted, wrongly signed or expired); 403 exactly when the principal was
\* verified and its role is not among the required ones.
C4_StatusByToken ==
    \A r \in ReqIds :
        LET q == reqs[r]
            roleOk == HasRequiredRole({users[q.auth.token.payload.sub].role},
                                      q.endpoint)
        IN  Terminal(r) =>
                /\ q.http \in {200, 401, 403}
                /\ q.http = 200 <=> (CarriesValid(q) /\ roleOk)
                /\ q.http = 401 <=> ~CarriesValid(q)
                /\ q.http = 403 <=> (CarriesValid(q) /\ ~roleOk)

\* C5: a request with a valid token of a USER ends Forbidden (403) on
\* /api/admin/hello and Authorized (200) on /api/user/hello; with a valid
\* token of an ADMIN it ends Authorized (200) on both.
C5_RoleCheck ==
    \A r \in ReqIds :
        LET q == reqs[r]
        IN  (Terminal(r) /\ CarriesValid(q)) =>
                LET role == users[q.auth.token.payload.sub].role
                IN  IF role = "USER" /\ q.endpoint = "/api/admin/hello"
                    THEN q.status = "Forbidden" /\ q.http = 403
                    ELSE q.status = "Authorized" /\ q.http = 200

\* The valid token of the USER was refused on /api/admin/hello and the valid
\* token of the ADMIN was accepted there.
C5_Witness ==
    /\ reqs["r1"].status = "Forbidden"
    /\ reqs["r1"].endpoint = "/api/admin/hello"
    /\ CarriesValid(reqs["r1"])
    /\ reqs["r2"].status = "Authorized"
    /\ reqs["r2"].endpoint = "/api/admin/hello"
    /\ CarriesValid(reqs["r2"])

\* The store without one user.
Without(store, email) == [e \in DOMAIN store \ {email} |-> store[e]]

\* A known email with a wrong password is answered as an unknown email is,
\* and as the same email would be were it not in the store.
C6_SameAnswer ==
    \A e1 \in DOMAIN users, p1 \in Passwords :
        users[e1].hash # BCryptHash(p1) =>
            LET known == LoginResponse(users, jwtSecret, e1, p1, clock, clock)
            IN  /\ known.status = 401
                /\ known = LoginResponse(Without(users, e1), jwtSecret,
                                         e1, p1, clock, clock)
                /\ \A e2 \in Emails \ DOMAIN users, p2 \in Passwords :
                       known = LoginResponse(users, jwtSecret, e2, p2,
                                             clock, clock)

OrderedOutcome(token, key, now) ==
    IF token.nseg # 3 THEN "Malformed"
    ELSE IF ~SignatureIsValid(token, key) THEN "BadSignature"
    ELSE IF ~({"sub", "exp"} \subseteq DOMAIN token.payload) THEN "Malformed"
    ELSE IF now >= FromNumericDate(token.payload.exp) THEN "Expired"
    ELSE "ok"

\* C7, as stated: every token a client can present yields Malformed,
\* BadSignature, Malformed (claims), Expired (now >= exp) or the principal,
\* decided in that order.
C7_FixedOrder ==
    \A t \in Presentable :
        parseClaimsJws(t, jwtSecret, clock).kind =
            OrderedOutcome(t, jwtSecret, clock)

\* The moves of a request's authentication status.
Edges ==
    {<<"NoToken", "Verifying">>, <<"Verifying", "Verified">>,
     <<"Verifying", "Rejected">>, <<"Verified", "Authorized">>,
     <<"Verified", "Forbidden">>}

\* C8: a request's status moves only along NoToken -> Verifying ->
\* {Verified, Rejected} and Verified -> {Authorized, Forbidden}; a request
\* that is Rejected, Forbidden or Authorized never changes again; and every
\* request that entered verification ends in one of the three.
C8_Lifecycle ==
    /\ [][\A r \in ReqIds :
             /\ reqs'[r].status # reqs[r].status =>
                    <<reqs[r].status, reqs'[r].status>> \in Edges
             /\ Terminal(r) => reqs'[r] = reqs[r]]_vars
    /\ \A r \in ReqIds : (reqs[r].status = "Verifying") ~> Terminal(r)

\* One request ended Authorized, the other Rejected.
C8_Witness ==
    /\ reqs["r1"].status = "Authorized"
    /\ reqs["r2"].status = "Rejected"

\* The headers a client sends again: none, an issued token, or whatever a
\* request carried, the refused one included.
Replayable ==
    {NoAuthorization} \cup {Bearer(i.token) : i \in issued}
        \cup {reqs[r].auth : r \in ReqIds}

\* C9: a step in which a request is Rejected, or a login fails, leaves the
\* user store, the signing key, the issued tokens, the clock and every other
\* request as they were, and every request is authenticated after the step
\* as it would have been before it.
C9_RejectionChangesNothing ==
    [][((\E r \in ReqIds :
            /\ reqs[r].status = "Verifying"
            /\ reqs'[r].status = "Rejected"
            /\ Verify(r))
        \/ (/\ resp'.status = LoginErrorResponse.status
            /\ reqs' = reqs
            /\ \E e \in Emails, p \in Passwords : Login(e, p, 0)))
       => /\ users' = users
          /\ jwtSecret' = jwtSecret
          /\ issued' = issued
          /\ clock' = clock
          /\ \A o \in ReqIds :
                 reqs'[o] # reqs[o] => reqs'[o].status = "Rejected"
          /\ \A a \in Replayable :
                 Authenticate(a, jwtSecret', users', clock') =
                     Authenticate(a, jwtSecret, users, clock)]_vars

\* A request was Rejected and a login failed.
C9_Witness ==
    /\ reqs["r1"].status = "Rejected"
    /\ resp = LoginErrorResponse

\* C10: whatever the other request is doing, a request in verification can
\* be verified at once, and the outcome recorded for a request is the one
\* the token, the signing key and the time of its verification give alone.
C10_Independent ==
    \A r \in ReqIds :
        LET q == reqs[r]
            alone == parseClaimsJws(q.auth.token, jwtSecretValue, q.at)
        IN  /\ q.status = "Verifying" => ENABLED Verify(r)
            /\ q.status = "Verified" => ENABLED Authorize(r)
            /\ q.status \in {"Verified", "Authorized", "Forbidden"} =>
                   /\ q.auth.present
                   /\ alone.kind = "ok"
                   /\ q.principal = alone.claims.sub
            /\ q.status = "Rejected" =>
                   IF q.auth.present
                   THEN alone.kind # "ok" /\ q.reason = alone.kind
                   ELSE q.reason = "Unauthenticated"

\* One request was verified while the other, carrying the same token with
\* a bit flipped, was still in verification.
C10_Witness ==
    /\ reqs["r1"].status = "Verified"
    /\ reqs["r2"].status = "Verifying"
    /\ reqs["r2"].auth.present
    /\ reqs["r2"].auth.token = FlipSignatureBit(reqs["r1"].auth.token, 1)

\* The time a token stops verifying: its exp claim.
ExpiryOf(token) == FromNumericDate(token.payload.exp)

\* The requests that carry the token of an issuance.
Carrying(i) == {r \in ReqIds : reqs[r].auth = Bearer(i.token)}

C12_ExpMinusIat ==
    \A i \in issued :
        /\ i.token.payload.sub = i.email
        /\ FromNumericDate(i.token.payload.exp)
               - FromNumericDate(i.token.payload.iat) = jwtExpirationMs

\* An answer of status 200 whose token field is the token t.
OkWithToken(res, t) ==
    /\ res.kind = "response"
    /\ res.status = 200
    /\ "token" \in DOMAIN res.body
    /\ res.body["token"] = t

\* C13: when a call of login or register gets an OK answer carrying the
\* token T, then as the call resolves the user is {submitted email, T},
\* isAuthenticated is true and localStorage holds authToken = T and
\* userEmail = the submitted email.
C13_WriteOnLogin ==
    [][calls' # calls =>
          \A c \in calls, res \in FetchResults, t \in ClientTokens :
          OkWithToken(res, t) /\ SettleCall(c, res) =>
              /\ user' = [email |-> c.email, token |-> t]
              /\ isAuthenticated(user')
              /\ settled' = [call |-> c, rejected |-> FALSE]
              /\ "authToken" \in DOMAIN localStorage'
              /\ localStorage'["authToken"] = t
              /\ "userEmail" \in DOMAIN localStorage'
              /\ localStorage'["userEmail"] = c.email]_vars

\* A call of register resolved for a user other than the one stored
\* before it.
C13_Witness ==
    /\ "call" \in DOMAIN settled
    /\ settled.call.kind = "register"
    /\ ~settled.rejected
    /\ user = [email |-> "a@x.com",
               token |-> generateToken("admin@x.com", jwtSecretValue, 0, 0)]
    /\ localStorage =
           setItem(setItem(EmptyStorage, "authToken", user.token),
                   "userEmail", "a@x.com")

\* The sessions a login can store, and localStorage holding one.
Sessions == {[email |-> e, token |-> t] : e \in Emails, t \in ClientTokens}

Holding(u) ==
    setItem(setItem(EmptyStorage, "authToken", u.token), "userEmail", u.email)

\* C14: what a successful login or register stores is the user it set; the
\* mount effect of a reloaded page sets the user to the stored {email,
\* token} without a request, and leaves it null when authToken or
\* userEmail is missing; and the effect does run.
C14_LoadOnStart ==
    /\ [][calls' # calls =>
          \A c \in calls, res \in FetchResults :
              "call" \in DOMAIN settled' /\ ~settled'.rejected
                      /\ SettleCall(c, res) =>
                  localStorage' = Holding(user')]_vars
    /\ [][Mount =>
              /\ \A u \in Sessions : localStorage = Holding(u) => user' = u
              /\ ("authToken" \notin DOMAIN localStorage
                     \/ "userEmail" \notin DOMAIN localStorage) => user' = null
              /\ reqs' = reqs
              /\ calls' = calls
              /\ localStorage' = localStorage]_vars
    /\ \A u \in Sessions :
           (~mounted /\ localStorage = Holding(u)) ~> (mounted /\ user = u)

\* The user on display was restored by the mount effect after a reload
\* that followed a login.
C14_Witness ==
    /\ mounted
    /\ settled = null
    /\ user \in Sessions
    /\ localStorage = Holding(user)
    /\ calls = {}

\* C15: a reload at /dashboard over a stored session is not redirected to
\* /login.
C15_RefreshKeepsDashboard ==
    [][(Reload("/dashboard") /\ \E u \in Sessions : localStorage = Holding(u))
          => location' = "/dashboard"]_vars

C17_ClearOnLogout ==
    /\ [][Logout \/ HandleLogout =>
              /\ user' = null
              /\ ~isAuthenticated(user')
              /\ DOMAIN localStorage' \cap {"authToken", "userEmail"} = {}
              /\ error' = null
              /\ \A own \in OwnHeaders :
                     ApiAuthorization(localStorage', own) = own]_vars
    /\ [][HandleLogout => location' = "/login" /\ screen' = "Login"]_vars

\* A user who logged in has logged out from the dashboard.
C17_Witness ==
    /\ "call" \in DOMAIN settled
    /\ ~settled.rejected
    /\ user = null
    /\ localStorage = EmptyStorage
    /\ location = "/login"

\* C18: a request made by apiCall carries Bearer T when localStorage holds
\* a non-empty authToken T, and only the caller's own header otherwise;
\* after a successful login or register T is the token that call stored.
C18_BearerFromStorage ==
    /\ [][reqs' # reqs =>
          \A r \in ReqIds, e \in Endpoints, own \in OwnHeaders :
              ApiCall(r, e, own) =>
                  IF "authToken" \in DOMAIN localStorage
                         /\ localStorage["authToken"] # EmptyString
                  THEN reqs'[r].auth = Bearer(localStorage["authToken"])
                  ELSE reqs'[r].auth = own]_vars
    /\ [][calls' # calls =>
          \A c \in calls, res \in FetchResults, t \in ClientTokens :
              OkWithToken(res, t) /\ SettleCall(c, res) =>
                  \A own \in OwnHeaders :
                      ApiAuthorization(localStorage', own) = Bearer(t)]_vars

\* After a login, a request went out with the stored token.
C18_Witness ==
    /\ "call" \in DOMAIN settled
    /\ ~settled.rejected
    /\ reqs["r1"].status = "Verifying"
    /\ user \in Sessions
    /\ reqs["r1"].auth = Bearer(user.token)
    /\ reqs["r1"].auth \notin OwnHeaders

NoTokenReceived == Text("No token received from server")

FailureMessage(kind, res) ==
    IF "message" \in DOMAIN res.body /\ res.body["message"] # ""
    THEN Text(res.body["message"])
    ELSE StatusText(FailedPrefix(kind), res.status)

C21_LoadingOfOneCall ==
    /\ [](calls # {} => isLoading = TRUE /\ error = null)
    /\ [][calls' # calls =>
              \A c \in calls, res \in FetchResults :
                  SettleCall(c, res) => isLoading' = FALSE]_vars
    /\ (calls # {}) ~> (calls = {} /\ isLoading = FALSE)

\* A call has failed on a network error and the form is idle again.
C21_Witness ==
    /\ "call" \in DOMAIN settled
    /\ settled.rejected
    /\ settled.reason = Text("Failed to fetch")
    /\ calls = {}
    /\ isLoading = FALSE
    /\ error = Text("Failed to fetch")

\* The other of the two calls.
OtherKind(kind) == IF kind = "login" THEN "register" ELSE "login"

C23_StaleCallIgnored ==
    [][(user = null /\ mounted) =>
           /\ user' = null
           /\ "authToken" \notin DOMAIN localStorage'
           /\ "userEmail" \notin DOMAIN localStorage']_vars

\* C25: of two overlapping calls that both succeed (no failure has set the
\* error), the session left once both have settled is that of the call
\* started last, in the user and in localStorage.
C25_LastStartedWins ==
    (calls = {} /\ error = null) =>
        /\ user # null
        /\ user.email = LaterEmail
        /\ localStorage["userEmail"] = LaterEmail
        /\ localStorage["authToken"] = user.token

\* C26: isLoading is true while a call is in flight, also when calls
\* overlap; and once the call started last has succeeded the error is not
\* the failure message of the older call.
C26_LoadingOfOverlappingCalls ==
    /\ calls # {} => isLoading = TRUE
    /\ (user # null /\ user.email = LaterEmail) => error = null

Answered(r, res) ==
    /\ answers[r] = null
    /\ reqs[r].http # 0
    /\ res \in ApiResponses(reqs[r])

C28_BearerOfTheUser ==
    [][reqs' # reqs =>
          \A e \in Endpoints, own \in OwnHeaders :
              (HasToken(localStorage, "authToken") /\ ApiCall("r1", e, own)) =>
                  /\ isAuthenticated(user)
                  /\ user.token = localStorage["authToken"]]_vars

\* C30: GET /api/public/hello asks for no role and no principal: a request
\* to it is answered 200, never 401 or 403, with no Authorization header,
\* with a valid token of either role, with an invalid and with an expired
\* token; the two other routes are answered 200 only to a verified
\* principal.
C30_PublicHello ==
    \A r \in ReqIds :
        /\ reqs[r].endpoint = PublicEndpoint =>
               /\ reqs[r].status \notin {"Rejected", "Forbidden"}
               /\ reqs[r].http \in {0, 200}
        /\ (reqs[r].endpoint \in Endpoints /\ reqs[r].http = 200) =>
               reqs[r].principal \in DOMAIN users

====
